---- MODULE Spec2Model ----
(***************************************************************************)
(* A model of the bee CLI's authentication core: the credential store      *)
(* (src/sources/secureStore.ts), the pairing request client                *)
(* (src/sources/commands/auth/appPairingRequest.ts) and the login          *)
(* orchestrator (the login command, src/unnamed/part_001).                 *)
(*                                                                         *)
(* These specifications share the definitions:                             *)
(*   TokenSpec    one CLI process after another calling loadToken,         *)
(*                saveToken and clearToken in any order;                   *)
(*   StoreSpec    one CLI process after another calling any of the six     *)
(*                store operations, credentials and pairing states;        *)
(*   RequestSpec  calls of requestAppPairing, one answer of the pairing    *)
(*                endpoint each;                                           *)
(*   Spec         one CLI process after another running `bee login`;      *)
(*   ResumeSpec   `bee login --agent` finding a damaged pairing state;     *)
(*   RaceSpec     two processes saving a pairing state, a third loading;   *)
(*   PollSpec     calls of pollForAppToken (FairPollSpec: with fairness);  *)
(*   LoginSpec    `bee login` and `bee auth login` (the device-code flow,  *)
(*                src/sources/commands/auth/index.ts) from their arguments.*)
(***************************************************************************)
EXTENDS Integers, Sequences, FiniteSets, TLC

VARIABLES
    secrets,          \* Bun.secrets: key -> stored string, or Null
    files,            \* ~/.bee: path -> file content, or Null when absent
    useFileFallback,  \* secureStore.ts:14, per process
    lastCall,         \* TokenSpec: the store call that completed last
    prevCall,         \* TokenSpec: the store call that completed before it
    loggedOut,        \* StoreSpec: env -> a clearToken returned, no save since
    request,          \* RequestSpec: the last call of requestAppPairing
    now,              \* Date.now(), in ticks of the polling interval
    keysUsed,         \* key pairs generated so far
    pc,               \* position of the login process
    proc,             \* the login process's locals
    obs               \* what the login invocation has done so far (history)

vars == <<secrets, files, useFileFallback, lastCall, prevCall, loggedOut, request,
          now, keysUsed, pc, proc, obs>>

storeVars == <<secrets, files, useFileFallback>>
callVars == <<lastCall, prevCall, loggedOut, request>>
loginVars == <<now, keysUsed, pc, proc, obs>>

----------------------------------------------------------------------------
(* Values *)

\* type Environment
Envs == {"prod", "staging"}

\* null / undefined: what a load returns for a missing entry, and the content
\* of a slot that holds nothing.
Null == <<"null">>

\* Strings are sequences of characters; " " is the whitespace character.

RECURSIVE TrimStart(_)
TrimStart(s) ==
    IF s # <<>> /\ Head(s) = " " THEN TrimStart(Tail(s)) ELSE s

RECURSIVE TrimEnd(_)
TrimEnd(s) ==
    IF s # <<>> /\ s[Len(s)] = " " THEN TrimEnd(SubSeq(s, 1, Len(s) - 1)) ELSE s

\* String.prototype.trim
Trim(s) == TrimEnd(TrimStart(s))

\* The token strings the store is called with.
TokenInputs == {<<" ">>, <<"a">>, <<" ", "b">>}

----------------------------------------------------------------------------
(* The secure backend's answers *)

\* A call of Bun.secrets either completes or throws an error with a message.
\* Messages are sequences of words.
ErrorMessages ==
    { <<"libsecret", "not", "found">>,
      <<"Keychain", "is", "locked">>,
      <<"secret service", "unreachable">>,
      <<"DBus", "connection", "refused">>,
      <<"permission", "denied">> }

SecretOk == [threw |-> FALSE, msg |-> <<>>]
SecretResults == {SecretOk} \cup {[threw |-> TRUE, msg |-> m] : m \in ErrorMessages}

\* The answers to draw for a store call: with the fallback active no call is
\* made to the secure backend, and there is nothing to draw.
AnswersFor(fb) == IF fb THEN {SecretOk} ELSE SecretResults

\* String.prototype.toLowerCase on a word
ToLower(w) ==
    CASE w = "Keychain" -> "keychain"
      [] w = "DBus" -> "dbus"
      [] OTHER -> w

\* message.includes(sig) on the lower-cased message
Includes(msg, sig) == \E i \in 1..Len(msg) : ToLower(msg[i]) = sig

isKeychainUnavailable(msg) ==
    \/ Includes(msg, "libsecret")
    \/ Includes(msg, "keychain")
    \/ Includes(msg, "secret service")
    \/ Includes(msg, "dbus")

handleKeychainError_strict(msg, fallback) == [fallback |-> fallback, rethrow |-> TRUE]
handleKeychainError_swallow(msg, fallback) == [fallback |-> TRUE, rethrow |-> FALSE]

\* handleKeychainError: the flag after the call, and whether err is rethrown.
handleKeychainError(msg, fallback) ==
    IF isKeychainUnavailable(msg)
    THEN [fallback |-> TRUE, rethrow |-> FALSE]
    ELSE [fallback |-> fallback, rethrow |-> TRUE]

----------------------------------------------------------------------------
(* Keys and paths *)

tokenKey(e) == <<"bee-cli", "token:", e>>
pairingStateKey(e) == <<"bee-cli", "pairing:", e>>
getTokenFilePath(e) == <<"~/.bee/", "token-", e>>
getPairingFilePath(e) == <<"~/.bee/", "pairing-", e, ".json">>

SecretKeys == {tokenKey(e) : e \in Envs} \cup {pairingStateKey(e) : e \in Envs}
FilePaths == {getTokenFilePath(e) : e \in Envs} \cup {getPairingFilePath(e) : e \in Envs}

----------------------------------------------------------------------------
(* Token storage.  Each operator takes the store as it is (sec, fil, fb) and *)
(* the secure backend's answer r to the one call the operation may make, and *)
(* gives the store afterwards with the value returned (ret) or the fact that *)
(* the operation threw.                                                      *)

StoreResult(sec, fil, fb, ret, threw) ==
    [sec |-> sec, fil |-> fil, fb |-> fb, ret |-> ret, threw |-> threw]

loadTokenFromFile(fil, e) ==
    LET path == getTokenFilePath(e) IN
    IF fil[path] = Null THEN Null
    ELSE LET value == Trim(fil[path]) IN
         IF Len(value) > 0 THEN value ELSE Null

saveTokenToFile(fil, e, token) == [fil EXCEPT ![getTokenFilePath(e)] = token]

clearTokenFromFile_keep(fil, e) == fil

clearTokenFromFile(fil, e) == [fil EXCEPT ![getTokenFilePath(e)] = Null]

loadToken(sec, fil, fb, e, r) ==
    IF ~fb /\ ~r.threw /\ sec[tokenKey(e)] # Null
    THEN LET trimmed == Trim(sec[tokenKey(e)]) IN
         StoreResult(sec, fil, fb, IF Len(trimmed) > 0 THEN trimmed ELSE Null, FALSE)
    ELSE IF ~fb /\ r.threw
    THEN LET h == handleKeychainError(r.msg, fb) IN
         IF h.rethrow
         THEN StoreResult(sec, fil, fb, Null, TRUE)
         ELSE StoreResult(sec, fil, h.fallback, loadTokenFromFile(fil, e), FALSE)
    ELSE StoreResult(sec, fil, fb, loadTokenFromFile(fil, e), FALSE)

saveToken_noop(sec, fil, fb, e, token, r) == StoreResult(sec, fil, fb, Null, FALSE)

saveToken_secureFirst(sec, fil, fb, e, token, r) ==
    IF ~r.threw
    THEN StoreResult([sec EXCEPT ![tokenKey(e)] = token], fil, fb, Null, FALSE)
    ELSE StoreResult(sec, saveTokenToFile(fil, e, token), TRUE, Null, FALSE)

saveToken(sec, fil, fb, e, token, r) ==
    IF ~fb /\ ~r.threw
    THEN StoreResult([sec EXCEPT ![tokenKey(e)] = token], fil, fb, Null, FALSE)
    ELSE IF ~fb /\ r.threw
    THEN LET h == handleKeychainError(r.msg, fb) IN
         IF h.rethrow
         THEN StoreResult(sec, fil, fb, Null, TRUE)
         ELSE StoreResult(sec, saveTokenToFile(fil, e, token), h.fallback, Null, FALSE)
    ELSE StoreResult(sec, saveTokenToFile(fil, e, token), fb, Null, FALSE)

clearToken(sec, fil, fb, e, r) ==
    IF ~fb /\ ~r.threw
    THEN StoreResult([sec EXCEPT ![tokenKey(e)] = Null], clearTokenFromFile(fil, e),
                     fb, Null, FALSE)
    ELSE IF ~fb /\ r.threw
    THEN LET h == handleKeychainError(r.msg, fb) IN
         IF h.rethrow
         THEN StoreResult(sec, fil, fb, Null, TRUE)
         ELSE StoreResult(sec, clearTokenFromFile(fil, e), h.fallback, Null, FALSE)
    ELSE StoreResult(sec, clearTokenFromFile(fil, e), fb, Null, FALSE)

----------------------------------------------------------------------------
(* Time *)

\* The clock counts ticks of the polling interval: intervalMs is one tick.
intervalMs == 1

\* 5 * 60 * 1000 ms, the deadline used when expiresAt is unusable, scaled to ticks.
FallbackTicks == 2

\* No process is started and no idle time passes after this instant.
MaxTime == 2

\* An expiresAt string: an ISO date for the instant ms, or text that is no date.
Iso(ms) == [kind |-> "iso", ms |-> ms]
Garbage == [kind |-> "garbage", ms |-> 0]
NoExpiresAt == [kind |-> "undefined", ms |-> 0]

\* Date.parse: a number, or NaN
DateParse(s) == [nan |-> s.kind # "iso", v |-> s.ms]

----------------------------------------------------------------------------
(* Pairing crypto (utils/appPairingCrypto) *)

\* Key pairs generated over the model's lifetime.
MaxKeys == 2

\* Buffer.from(bytes).toString("base64") and Buffer.from(text, "base64")
ToBase64(bytes) == [b64 |-> bytes]
FromBase64(text) == text.b64

\* generateAppPairingKeyPair: the k-th key pair
generateAppPairingKeyPair(k) ==
    [publicKeyBase64 |-> ToBase64([pk |-> k]), secretKey |-> [sk |-> k]]

\* A token ciphertext: a box sealed to the public key of pair `to` holding
\* msg, or bytes that are no box at all.
Box(to, msg) == [kind |-> "box", to |-> to, msg |-> msg]
NotABox == [kind |-> "garbage", to |-> 0, msg |-> <<>>]
NoCiphertext == [kind |-> "undefined", to |-> 0, msg |-> <<>>]

\* decryptAppPairingToken: the plaintext, or a thrown DecryptionError
decryptAppPairingToken(ct, secretKey) ==
    IF ct.kind = "box" /\ ct.to = secretKey.sk
    THEN [threw |-> FALSE, token |-> ct.msg]
    ELSE [threw |-> TRUE, token |-> <<>>]

----------------------------------------------------------------------------
(* Pairing request client *)

Undefined == "<undefined>"
RequestIds == {"r1", "r2"}

\* What fetch gives: a network failure, or an HTTP response with its status
\* and JSON body (json = FALSE: the body is no JSON object).  A field that is
\* missing or not a string is Undefined / of kind "undefined".
HttpResponse(status, json, ok, st, rid, exp, ct, err) ==
    [network |-> FALSE, httpStatus |-> status, json |-> json, ok |-> ok,
     status |-> st, requestId |-> rid, expiresAt |-> exp, encryptedToken |-> ct,
     error |-> err]

NetworkFailure ==
    [HttpResponse(0, FALSE, FALSE, Undefined, Undefined, NoExpiresAt, NoCiphertext,
                  Undefined) EXCEPT !.network = TRUE]

PendingResponse(rid, exp) ==
    HttpResponse(200, TRUE, TRUE, "pending", rid, exp, NoCiphertext, Undefined)
CompletedResponse(rid, ct) ==
    HttpResponse(200, TRUE, TRUE, "completed", rid, NoExpiresAt, ct, Undefined)
ExpiredResponse(rid) ==
    HttpResponse(200, TRUE, TRUE, "expired", rid, NoExpiresAt, NoCiphertext, Undefined)

ErrorResponses ==
    { NetworkFailure,
      HttpResponse(404, FALSE, FALSE, Undefined, Undefined, NoExpiresAt, NoCiphertext, Undefined),
      HttpResponse(500, TRUE, FALSE, Undefined, Undefined, NoExpiresAt, NoCiphertext, "rate_limited"),
      HttpResponse(200, TRUE, FALSE, "pending", "r1", Iso(MaxTime + 2), NoCiphertext, Undefined),
      HttpResponse(200, TRUE, TRUE, "approved", "r1", NoExpiresAt, NoCiphertext, Undefined),
      PendingResponse("r1", NoExpiresAt),
      CompletedResponse(Undefined, NotABox) }

\* The expiresAt strings the server sends with `pending`.
ServerExpiries == {Iso(0), Iso(1), Iso(MaxTime + 2), Garbage}

\* The tokens the server delivers.
Plaintexts == {<<" ", "a">>}

\* Every response the server may give to a request carrying the public key of
\* key pair k.
Responses(k) ==
    ErrorResponses
    \cup {PendingResponse("r1", exp) : exp \in ServerExpiries}
    \cup {PendingResponse(rid, Iso(MaxTime + 2)) : rid \in RequestIds}
    \cup {CompletedResponse(rid, Box(k, m)) : rid \in RequestIds, m \in Plaintexts}
    \cup {CompletedResponse("r1", Box(0, <<" ", "a">>)), CompletedResponse("r1", NotABox)}
    \cup {ExpiredResponse(rid) : rid \in RequestIds}

Outcome(st, rid, exp, ct, msg) ==
    [status |-> st, requestId |-> rid, expiresAt |-> exp, encryptedToken |-> ct,
     message |-> msg]

Thrown(msg) == Outcome("error", Undefined, NoExpiresAt, NoCiphertext, msg)

IsString(x) == x # Undefined

\* A version that returns whatever carries a known status and a requestId.
requestAppPairing_lenient(resp) ==
    IF ~resp.network /\ resp.json
       /\ resp.status \in {"pending", "completed", "expired"} /\ IsString(resp.requestId)
    THEN Outcome(resp.status, resp.requestId, resp.expiresAt, resp.encryptedToken, "")
    ELSE Thrown("Invalid response from developer API.")

\* requestAppPairing, from the response fetch gave: the AppPairingRequest
\* returned, or status "error" with the message of the error thrown.
requestAppPairing(resp) ==
    IF resp.network THEN Thrown("fetch failed")
    ELSE IF ~(resp.httpStatus >= 200 /\ resp.httpStatus <= 299)
    THEN LET errorCode == IF resp.json /\ IsString(resp.error)
                          THEN resp.error ELSE Undefined IN
         IF resp.httpStatus = 404 /\ (errorCode = Undefined \/ errorCode = "Not Found")
         THEN Thrown("Pairing endpoint not found.")
         ELSE IF errorCode # Undefined THEN Thrown(errorCode)
         ELSE Thrown("Request failed with status")
    ELSE IF ~(resp.json /\ resp.ok)
    THEN Thrown("Invalid response from developer API.")
    ELSE IF resp.status = "pending"
    THEN IF ~IsString(resp.requestId) \/ resp.expiresAt.kind = "undefined"
         THEN Thrown("Invalid response from developer API.")
         ELSE Outcome("pending", resp.requestId, resp.expiresAt, NoCiphertext, "")
    ELSE IF resp.status = "completed"
    THEN IF ~IsString(resp.requestId) \/ resp.encryptedToken.kind = "undefined"
         THEN Thrown("Invalid response from developer API.")
         ELSE Outcome("completed", resp.requestId, NoExpiresAt, resp.encryptedToken, "")
    ELSE IF resp.status = "expired"
    THEN IF ~IsString(resp.requestId)
         THEN Thrown("Invalid response from developer API.")
         ELSE Outcome("expired", resp.requestId, NoExpiresAt, NoCiphertext, "")
    ELSE Thrown("Invalid response from developer API.")

\* The string of no characters, as a public key.
EmptyPublicKey == ToBase64([pk |-> -1])

\* One call of requestAppPairing: the body it posts (line 26), the requests
\* it sends (line 32, the only call of fetchPairing), the response and what
\* the call gives back.
RequestCall(e, appId, publicKey, resp) ==
    [called |-> TRUE, env |-> e,
     body |-> [app_id |-> appId, publicKey |-> publicKey],
     fetches |-> 1, response |-> resp, outcome |-> requestAppPairing(resp)]

\* No call of requestAppPairing has been made.
NoRequestCall ==
    [called |-> FALSE, env |-> "prod",
     body |-> [app_id |-> "", publicKey |-> EmptyPublicKey],
     fetches |-> 0, response |-> NetworkFailure, outcome |-> Thrown("")]

----------------------------------------------------------------------------
(* Pairing state storage *)

\* type PairingState
PairingState(appId, publicKey, secretKey, requestId, pairingUrl, expiresAt) ==
    [appId |-> appId, publicKey |-> publicKey, secretKey |-> secretKey,
     requestId |-> requestId, pairingUrl |-> pairingUrl, expiresAt |-> expiresAt]

\* JSON.stringify of a PairingState, and JSON.parse of such a text.  A value
\* a load returns is Null or <<"state", PairingState>>.
JSONstringify(state) == <<"json", state>>
parseJson(text) == IF Len(text) = 2 /\ text[1] = "json" THEN <<"state", text[2]>> ELSE Null

loadPairingStateFromFile(fil, e) ==
    LET path == getPairingFilePath(e) IN
    IF fil[path] = Null THEN Null ELSE parseJson(fil[path])

savePairingStateToFile(fil, e, state) ==
    [fil EXCEPT ![getPairingFilePath(e)] = JSONstringify(state)]

clearPairingStateFromFile(fil, e) == [fil EXCEPT ![getPairingFilePath(e)] = Null]

loadPairingState(sec, fil, fb, e, r) ==
    IF ~fb /\ ~r.threw /\ sec[pairingStateKey(e)] # Null
    THEN StoreResult(sec, fil, fb, parseJson(sec[pairingStateKey(e)]), FALSE)
    ELSE IF ~fb /\ r.threw
    THEN LET h == handleKeychainError(r.msg, fb) IN
         IF h.rethrow
         THEN StoreResult(sec, fil, fb, Null, TRUE)
         ELSE StoreResult(sec, fil, h.fallback, loadPairingStateFromFile(fil, e), FALSE)
    ELSE StoreResult(sec, fil, fb, loadPairingStateFromFile(fil, e), FALSE)

savePairingState(sec, fil, fb, e, state, r) ==
    IF ~fb /\ ~r.threw
    THEN StoreResult([sec EXCEPT ![pairingStateKey(e)] = JSONstringify(state)],
                     fil, fb, Null, FALSE)
    ELSE IF ~fb /\ r.threw
    THEN LET h == handleKeychainError(r.msg, fb) IN
         IF h.rethrow
         THEN StoreResult(sec, fil, fb, Null, TRUE)
         ELSE StoreResult(sec, savePairingStateToFile(fil, e, state), h.fallback,
                          Null, FALSE)
    ELSE StoreResult(sec, savePairingStateToFile(fil, e, state), fb, Null, FALSE)

clearPairingState(sec, fil, fb, e, r) ==
    IF ~fb /\ ~r.threw
    THEN StoreResult([sec EXCEPT ![pairingStateKey(e)] = Null],
                     clearPairingStateFromFile(fil, e), fb, Null, FALSE)
    ELSE IF ~fb /\ r.threw
    THEN LET h == handleKeychainError(r.msg, fb) IN
         IF h.rethrow
         THEN StoreResult(sec, fil, fb, Null, TRUE)
         ELSE StoreResult(sec, clearPairingStateFromFile(fil, e), h.fallback, Null, FALSE)
    ELSE StoreResult(sec, clearPairingStateFromFile(fil, e), fb, Null, FALSE)

----------------------------------------------------------------------------
(* The login command: locals and history *)

buildPairingUrl(requestId) == <<"https://bee.computer/connect/", requestId>>

getDefaultAppId(e) ==
    IF e = "staging" THEN "pk5z3uuzjpxj4f7frk6rsq2f" ELSE "ph9fssu1kv1b0hns69fxf7rx"

NoKeyPair == generateAppPairingKeyPair(0)
NoState ==
    PairingState("", NoKeyPair.publicKeyBase64, ToBase64(NoKeyPair.secretKey), "",
                 buildPairingUrl(""), NoExpiresAt)
NoRequest == [appId |-> "", publicKey |-> NoKeyPair.publicKeyBase64]

\* Locals of handleLogin, loginWithAppPairing(AgentMode) and pollForAppToken.
NoProc ==
    [env |-> "prod", command |-> "login", agent |-> FALSE, skipVerify |-> FALSE,
     token |-> <<>>,
     existingState |-> NoState, hasExisting |-> FALSE,
     appId |-> "", publicKey |-> NoKeyPair.publicKeyBase64,
     secretKey |-> NoKeyPair.secretKey, requestId |-> "",
     expiresAt |-> NoExpiresAt, deadline |-> 0,
     deviceIntervalMs |-> 0,
     errMsg |-> ""]

\* History of one invocation.
NoObs ==
    [nReq |-> 0,                \* pairing requests sent
     lastReq |-> NoRequest,     \* app_id and publicKey of the last one
     firstReqClears |-> 0,      \* clearPairingState calls completed before the first
     nPollReq |-> 0,            \* requests sent by pollForAppToken
     nPending |-> 0,            \* `pending` answers pollForAppToken got
     nSleep |-> 0,              \* sleeps of pollForAppToken
     lastStatus |-> "none",     \* outcome of the last requestAppPairing
     initial |-> "none",        \* outcome of the first request of a fresh attempt
     presented |-> FALSE,       \* selectAuthMethod and presentAppPairing have run
     printed |-> {},            \* the data console.log / console.error were given
     lastCt |-> NoCiphertext,   \* encryptedToken of the last `completed`
     inPoll |-> FALSE,          \* pollForAppToken was entered
     pollPast |-> FALSE,        \* its expiresAt was a date before Date.now() then
     pollThrew |-> FALSE,       \* a requestAppPairing inside it threw
     pollResult |-> "none",     \* how it ended: "none" (not yet), "token", "threw"
     pollToken |-> <<>>,        \* the token it returned
     pollMsg |-> "",            \* the message of the error it threw
     terminal |-> FALSE,        \* a `completed` or `expired` answer was received
     keysGen |-> 0,             \* key pairs generated
     saves |-> 0,               \* savePairingState calls completed
     savedTo |-> "none",        \* backend the state went to
     clears |-> 0,              \* clearPairingState calls completed
     loadedFrom |-> "none",     \* backend loadPairingState read
     loadFuture |-> FALSE,      \* the loaded expiresAt was a date after Date.now()
     resumed |-> FALSE,         \* the stored state is being reused
     ended |-> "no",            \* loginWithAppPairing: "no", "returned", "threw"
     verified |-> Null,         \* the token fetchClientMe / fetchDeveloperMe accepted
     deviceHttp |-> 0,          \* HTTP status of the last device-token answer
     deviceToken |-> FALSE,     \* that answer carried a token
     result |-> <<>>]           \* the token it returned

NoCall == [op |-> "none", env |-> "prod", arg |-> Null, ret |-> Null,
           threw |-> FALSE, hadSecret |-> FALSE, hadFile |-> FALSE]

StoreInit ==
    /\ secrets = [k \in SecretKeys |-> Null]
    /\ files = [p \in FilePaths |-> Null]
    /\ useFileFallback = FALSE
    /\ lastCall = NoCall
    /\ prevCall = NoCall
    /\ loggedOut = [e \in Envs |-> FALSE]
    /\ request = NoRequestCall

LoginIdle ==
    /\ now = 1
    /\ keysUsed = 0
    /\ pc = "idle"
    /\ \E e \in Envs : proc = [NoProc EXCEPT !.env = e]
    /\ obs = NoObs

\* Console output: the literal texts carry no data and are left out; a datum
\* printed is recorded by the variable it comes from and, for key material,
\* the key pair it belongs to.
Shown(what, k) == [shows |-> what, key |-> k]

\* presentAppPairing, lines 315-330: the request id, the URL (as text and,
\* for method "qr", as a QR code of it) and, when BEE_EMOJI_HASH is set, the
\* emoji hash of the public key bytes.
presentAppPairing(method, emoji, k) ==
    {Shown("requestId", 0), Shown("pairingUrl", 0)}
        \cup (IF emoji THEN {Shown("publicKeyBytes", k)} ELSE {})

printAgentWelcomeMessage_verbose(k) ==
    {Shown("pairingUrl", 0), Shown("expiresAt", 0), Shown("secretKey", k)}

\* printAgentWelcomeMessage, lines 403-455: the URL and the minutes left
\* until expiresAt; k is the key pair of the attempt, which it is not given.
printAgentWelcomeMessage(k) == {Shown("pairingUrl", 0), Shown("expiresAt", 0)}

\* lines 78-85: the success message names the user fetchClientMe returned.
printSuccessMessage == {Shown("user", 0)}

\* main.ts line 80: console.error(error.message)
printError == {Shown("error.message", 0)}

SetStore(res) ==
    /\ secrets' = res.sec
    /\ files' = res.fil
    /\ useFileFallback' = res.fb

\* An error leaves the command.  Inside loginWithAppPairing it is that
\* function's error.
Fail(p, o, msg) ==
    /\ pc' = "failed"
    /\ proc' = [p EXCEPT !.errMsg = msg]
    /\ obs' = [o EXCEPT !.ended = IF o.ended = "no" THEN "threw" ELSE o.ended,
                        !.printed = @ \cup printError]

Return_viaPresent(p, o, token) ==
    /\ pc' = "present"
    /\ proc' = p
    /\ obs' = o

\* loginWithAppPairing returns a token to handleLogin.
Return(p, o, token) ==
    /\ pc' = "verify"
    /\ proc' = [p EXCEPT !.token = token]
    /\ obs' = [o EXCEPT !.ended = "returned", !.result = token]

Goto(label, p, o) ==
    /\ pc' = label
    /\ proc' = p
    /\ obs' = o

\* One more pairing request is on the wire.
Sent(o, appId, publicKey, outcome) ==
    [o EXCEPT !.nReq = @ + 1,
              !.lastReq = [appId |-> appId, publicKey |-> publicKey],
              !.firstReqClears = IF o.nReq = 0 THEN o.clears ELSE @,
              !.lastStatus = outcome.status,
              !.lastCt = outcome.encryptedToken,
              !.terminal = @ \/ outcome.status \in {"completed", "expired"}]

----------------------------------------------------------------------------
(* pollForAppToken *)

pollDeadline_fallback(expiresAt, t) == t + FallbackTicks

pollDeadline_late(expiresAt, t) ==
    LET expiresAtMs == DateParse(expiresAt) IN
    IF expiresAtMs.nan \/ expiresAtMs.v <= 0 THEN t + FallbackTicks
    ELSE expiresAtMs.v + intervalMs

\* lines 356-360
pollDeadline(expiresAt, t) ==
    LET expiresAtMs == DateParse(expiresAt) IN
    IF expiresAtMs.nan \/ expiresAtMs.v <= 0 THEN t + FallbackTicks ELSE expiresAtMs.v

\* The call of pollForAppToken: its opts and its deadline.
EnterPoll(p, o, appId, publicKey, secretKey, expiresAt) ==
    Goto("poll",
         [p EXCEPT !.appId = appId, !.publicKey = publicKey, !.secretKey = secretKey,
                   !.expiresAt = expiresAt, !.deadline = pollDeadline(expiresAt, now)],
         [o EXCEPT !.inPoll = TRUE,
                   !.pollPast = expiresAt.kind = "iso" /\ expiresAt.ms < now])

pollRetries_errors(outcome) == outcome.status \in {"pending", "error"}
pollRetries_expired(outcome) == outcome.status \in {"pending", "expired"}
pollRetries_always(outcome) == outcome.status \in {"pending", "completed"}

\* lines 369-378: the outcomes after which the loop sleeps and goes round again
pollRetries(outcome) == outcome.status = "pending"

\* Whether clearPairingState follows pollForAppToken: lines 243 and 246 on the
\* resumed path, line 292 but not lines 294-296 on the fresh path.
clearsAfterPoll(resumed, threw) == IF resumed THEN TRUE ELSE ~threw

PollEnds_hangs(p, o, threw, token, msg) == Goto("poll", proc, obs)

\* pollForAppToken has ended, with a token or an error.
PollEnds(p, o, threw, token, msg) ==
    LET o2 == [o EXCEPT !.pollResult = IF threw THEN "threw" ELSE "token",
                        !.pollToken = token, !.pollMsg = msg]
    IN  IF p.agent /\ clearsAfterPoll(o.resumed, threw)
        THEN Goto("clearAfter", p, o2)
        ELSE IF threw THEN Fail(p, o2, msg)
        ELSE Return(p, o2, token)

\* One turn of the loop: the deadline test, the request and what follows it.
PollStep ==
    /\ pc = "poll"
    /\ UNCHANGED <<storeVars, callVars, now, keysUsed>>
    /\ IF ~(now < proc.deadline)
       THEN PollEnds(proc, obs, TRUE, <<>>, "Login timed out. Please try again.")
       ELSE \E resp \in Responses(proc.secretKey.sk) :
            LET outcome == requestAppPairing(resp)
                o1 == Sent(obs, proc.appId, proc.publicKey, outcome)
                o == [o1 EXCEPT !.nPollReq = @ + 1,
                                !.nPending = IF outcome.status = "pending"
                                             THEN @ + 1 ELSE @,
                                !.pollThrew = outcome.status = "error"]
                d == decryptAppPairingToken(outcome.encryptedToken, proc.secretKey)
            IN  IF pollRetries(outcome)
                THEN Goto("sleep", proc, o)
                ELSE IF outcome.status = "completed"
                THEN PollEnds(proc, o, d.threw, d.token, "Decryption failed.")
                ELSE IF outcome.status = "expired"
                THEN PollEnds(proc, o, TRUE, <<>>,
                              "Pairing request expired. Please try again.")
                ELSE PollEnds(proc, o, TRUE, <<>>, outcome.message)

\* await sleep(intervalMs)
Sleep ==
    /\ pc = "sleep"
    /\ now' = now + intervalMs
    /\ Goto("poll", proc, [obs EXCEPT !.nSleep = @ + 1])
    /\ UNCHANGED <<storeVars, callVars, keysUsed>>

----------------------------------------------------------------------------
(* loginWithAppPairing and loginWithAppPairingAgentMode *)

isExpired_strict(expiresAt, t) ==
    LET expiresAtMs == DateParse(expiresAt) IN
    expiresAtMs.nan \/ t >= expiresAtMs.v

\* lines 228-229
isExpired(expiresAt, t) ==
    LET expiresAtMs == DateParse(expiresAt) IN
    ~expiresAtMs.nan /\ t >= expiresAtMs.v

\* The backend a load or save of the pairing state ended up using.
BackendUsed(res, readSecret) ==
    IF res.threw THEN "none"
    ELSE IF ~res.fb /\ readSecret THEN "secure"
    ELSE "file"

resumeKeys_fresh(existing, k) ==
    [appId |-> existing.appId,
     publicKey |-> generateAppPairingKeyPair(k).publicKeyBase64,
     secretKey |-> generateAppPairingKeyPair(k).secretKey]

\* lines 234-241: what the resumed poll is called with
resumeKeys(existing, k) ==
    [appId |-> existing.appId,
     publicKey |-> existing.publicKey,
     secretKey |-> FromBase64(existing.secretKey)]

\* A stored record without a secretKey field: existingState.secretKey is
\* undefined.
MissingSecretKey == ToBase64([sk |-> -1])

\* line 234: Buffer.from(existingState.secretKey, "base64") throws a TypeError
\* when its first argument is undefined; any string decodes to some bytes.
bufferFromThrows(text) == text = MissingSecretKey

\* lines 225-252: load the stored state and decide between resuming it,
\* discarding it and starting without one.
AgentLoad ==
    /\ pc = "agentLoad"
    /\ UNCHANGED <<callVars, now, keysUsed>>
    /\ \E r \in AnswersFor(useFileFallback) :
        LET res == loadPairingState(secrets, files, useFileFallback, proc.env, r)
            o == [obs EXCEPT
                    !.loadedFrom = BackendUsed(res, secrets[pairingStateKey(proc.env)] # Null),
                    !.loadFuture = /\ res.ret # Null
                                   /\ res.ret[2].expiresAt.kind = "iso"
                                   /\ now < res.ret[2].expiresAt.ms]
        IN  /\ SetStore(res)
            /\ IF res.threw THEN Fail(proc, o, "keychain error")
               ELSE IF res.ret = Null THEN Goto("create", proc, o)
               ELSE LET existingState == res.ret[2]
                        p == [proc EXCEPT !.existingState = existingState,
                                          !.hasExisting = TRUE]
                        keys == resumeKeys(existingState, keysUsed + 1)
                    IN  IF ~isExpired(existingState.expiresAt, now)
                        THEN IF bufferFromThrows(existingState.secretKey)
                             THEN Fail(p, [o EXCEPT !.printed = @ \cup
                                                       printAgentWelcomeMessage(0)],
                                       "The first argument must be of type string")
                        ELSE EnterPoll(p, [o EXCEPT !.resumed = TRUE,
                                                    !.printed = @ \cup
                                                        printAgentWelcomeMessage(keys.secretKey.sk)],
                                       keys.appId, keys.publicKey, keys.secretKey,
                                       existingState.expiresAt)
                        ELSE Goto("clearExpired", p, o)

\* line 251
AgentClearExpired ==
    /\ pc = "clearExpired"
    /\ UNCHANGED <<callVars, now, keysUsed>>
    /\ \E r \in AnswersFor(useFileFallback) :
        LET res == clearPairingState(secrets, files, useFileFallback, proc.env, r) IN
        /\ SetStore(res)
        /\ IF res.threw THEN Fail(proc, obs, "keychain error")
           ELSE Goto("create", proc, [obs EXCEPT !.clears = @ + 1])

afterFirstPending_noSave(agent) == "present"

\* After a `pending` first answer: agent mode persists the state (lines
\* 269-279), the interactive flow presents the URL (lines 208-211).
afterFirstPending(agent) == IF agent THEN "save" ELSE "present"

\* lines 190-206 and 254-267: a fresh key pair and the first request.
Create ==
    /\ pc = "create"
    /\ keysUsed < MaxKeys
    /\ keysUsed' = keysUsed + 1
    /\ UNCHANGED <<storeVars, callVars, now>>
    /\ \E resp \in Responses(keysUsed + 1) :
        LET appId == getDefaultAppId(proc.env)
            keyPair == generateAppPairingKeyPair(keysUsed + 1)
            initial == requestAppPairing(resp)
            p == [proc EXCEPT !.appId = appId,
                              !.publicKey = keyPair.publicKeyBase64,
                              !.secretKey = keyPair.secretKey,
                              !.requestId = initial.requestId,
                              !.expiresAt = initial.expiresAt]
            o == Sent([obs EXCEPT !.keysGen = @ + 1, !.initial = initial.status],
                      appId, keyPair.publicKeyBase64, initial)
            d == decryptAppPairingToken(initial.encryptedToken, keyPair.secretKey)
        IN  IF initial.status = "error" THEN Fail(p, o, initial.message)
            ELSE IF initial.status = "completed"
            THEN IF d.threw THEN Fail(p, o, "Decryption failed.")
                 ELSE Return(p, o, d.token)
            ELSE IF initial.status = "expired"
            THEN Fail(p, o, "Pairing request expired. Please try again.")
            ELSE Goto(afterFirstPending(proc.agent), p, o)

\* lines 269-291: persist the state, then call pollForAppToken.
AgentSave ==
    /\ pc = "save"
    /\ UNCHANGED <<callVars, now, keysUsed>>
    /\ \E r \in AnswersFor(useFileFallback) :
        LET state == PairingState(proc.appId, proc.publicKey, ToBase64(proc.secretKey),
                                  proc.requestId, buildPairingUrl(proc.requestId),
                                  proc.expiresAt)
            res == savePairingState(secrets, files, useFileFallback, proc.env, state, r)
            o == [obs EXCEPT !.saves = @ + 1, !.savedTo = BackendUsed(res, TRUE),
                             !.printed = @ \cup printAgentWelcomeMessage(proc.secretKey.sk)]
        IN  /\ SetStore(res)
            /\ IF res.threw THEN Fail(proc, obs, "keychain error")
               ELSE EnterPoll(proc, o, proc.appId, proc.publicKey, proc.secretKey,
                              proc.expiresAt)

\* lines 208-219: the user picks a presentation, it is shown, polling starts.
Present ==
    /\ pc = "present"
    /\ UNCHANGED <<storeVars, callVars, now, keysUsed>>
    /\ \E method \in {"browser", "qr"}, emoji \in BOOLEAN :
        EnterPoll(proc,
                  [obs EXCEPT !.presented = TRUE,
                              !.printed = @ \cup presentAppPairing(method, emoji,
                                                                   proc.secretKey.sk)],
                  proc.appId, proc.publicKey, proc.secretKey, proc.expiresAt)

\* lines 243-247 and 292: clearPairingState after pollForAppToken, then the
\* token is returned or the error rethrown.
AgentClearAfter ==
    /\ pc = "clearAfter"
    /\ UNCHANGED <<callVars, now, keysUsed>>
    /\ \E r \in AnswersFor(useFileFallback) :
        LET res == clearPairingState(secrets, files, useFileFallback, proc.env, r)
            o == [obs EXCEPT !.clears = @ + 1]
        IN  /\ SetStore(res)
            /\ IF res.threw THEN Fail(proc, obs, "keychain error")
               ELSE IF obs.pollResult = "threw" THEN Fail(proc, o, obs.pollMsg)
               ELSE Return(proc, o, obs.pollToken)

----------------------------------------------------------------------------
(* handleLogin and the life of a process *)

\* The values of --token: not given, or a string.
GivenTokens == {Null, <<" ">>, <<" ", "b">>}

\* lines 55-66 and 176-188 (auth/index.ts 86-97 and 265-270): the token that
\* was given is trimmed; without one the command goes on to its interactive
\* flow, which wants a terminal unless it is the agent's.
withToken(p, isTTY, given) ==
    LET token == IF given = Null THEN <<>> ELSE Trim(given) IN
    IF token # <<>> THEN Goto("verify", [p EXCEPT !.token = token], NoObs)
    ELSE IF ~p.agent /\ ~isTTY
    THEN Fail(p, NoObs, "Interactive login requires a TTY.")
    ELSE IF p.command = "auth login" THEN Goto("deviceStart", p, NoObs)
    ELSE Goto(IF p.agent THEN "agentLoad" ELSE "create", p, NoObs)

\* lines 49-66 and 176-188: a new process runs `bee login`, against the
\* environment of this behaviour (context.env, proc.env from the start).
Start ==
    /\ pc = "idle"
    /\ now <= MaxTime
    /\ UNCHANGED <<storeVars, callVars, now, keysUsed>>
    /\ \E agent \in BOOLEAN, isTTY \in BOOLEAN, given \in GivenTokens :
        withToken([proc EXCEPT !.agent = agent], isTTY, given)

mustVerify_never(command, skipVerify) == FALSE

\* line 74 and auth/index.ts 105-108: `bee login` always verifies,
\* `bee auth login` unless --skip-verify was given.
mustVerify(command, skipVerify) == command = "login" \/ ~skipVerify

\* lines 68-74 (auth/index.ts 99-108): the token is checked, trimmed and
\* verified with fetchClientMe (fetchDeveloperMe), which returns the user or
\* throws.
Verify ==
    /\ pc = "verify"
    /\ UNCHANGED <<storeVars, callVars, now, keysUsed>>
    /\ \E verified \in BOOLEAN :
        LET token == Trim(proc.token)
            asked == mustVerify(proc.command, proc.skipVerify)
        IN  IF proc.token = <<>> THEN Fail(proc, obs, "Missing token.")
            ELSE IF asked /\ ~verified THEN Fail(proc, obs, "Request failed")
            ELSE Goto("saveToken", [proc EXCEPT !.token = token],
                      [obs EXCEPT !.verified = IF asked THEN token ELSE @])

\* line 76
StoreToken ==
    /\ pc = "saveToken"
    /\ UNCHANGED <<callVars, now, keysUsed>>
    /\ \E r \in AnswersFor(useFileFallback) :
        LET res == saveToken(secrets, files, useFileFallback, proc.env, proc.token, r) IN
        /\ SetStore(res)
        /\ IF res.threw THEN Fail(proc, obs, "keychain error")
           ELSE Goto("done", proc, [obs EXCEPT !.printed = @ \cup printSuccessMessage])

\* The process is gone: it exited, or it was killed wherever it was, and with
\* it its locals and its useFileFallback (the next process starts with the
\* module's initial value, secureStore.ts:14).  The secure store and the files
\* stay.
ProcessEnds ==
    /\ pc # "idle"
    /\ pc' = "idle"
    /\ proc' = [NoProc EXCEPT !.env = proc.env]
    /\ obs' = NoObs
    /\ useFileFallback' = FALSE
    /\ UNCHANGED <<secrets, files, callVars, now, keysUsed>>

\* Time passes.
Tick ==
    /\ now < MaxTime
    /\ now' = now + 1
    /\ UNCHANGED <<storeVars, callVars, keysUsed, pc, proc, obs>>

Init == StoreInit /\ LoginIdle

Next ==
    \/ Start
    \/ AgentLoad
    \/ AgentClearExpired
    \/ Create
    \/ AgentSave
    \/ Present
    \/ PollStep
    \/ Sleep
    \/ AgentClearAfter
    \/ Verify
    \/ StoreToken
    \/ ProcessEnds
    \/ Tick

Spec == Init /\ [][Next]_vars

----------------------------------------------------------------------------
(* TokenSpec: processes calling the token store *)

Call(op, e, arg, res) ==
    [op |-> op, env |-> e, arg |-> arg, ret |-> res.ret, threw |-> res.threw,
     hadSecret |-> secrets[tokenKey(e)] # Null,
     hadFile |-> files[getTokenFilePath(e)] # Null]

Apply(op, e, arg, res) ==
    /\ secrets' = res.sec
    /\ files' = res.fil
    /\ useFileFallback' = res.fb
    /\ prevCall' = [lastCall EXCEPT !.ret = Null]
    /\ lastCall' = Call(op, e, arg, res)
    /\ UNCHANGED <<loggedOut, request, loginVars>>

TokLoad ==
    \E e \in Envs, r \in AnswersFor(useFileFallback) :
        Apply("loadToken", e, Null, loadToken(secrets, files, useFileFallback, e, r))

TokSave ==
    \E e \in Envs, t \in TokenInputs, r \in AnswersFor(useFileFallback) :
        Apply("saveToken", e, t, saveToken(secrets, files, useFileFallback, e, t, r))

TokClear ==
    \E e \in Envs, r \in AnswersFor(useFileFallback) :
        Apply("clearToken", e, Null, clearToken(secrets, files, useFileFallback, e, r))

\* The process ends and the next one starts: the module-level flag is fresh,
\* the secure store and the files stay.
TokRestart ==
    /\ lastCall.op # "none"
    /\ useFileFallback' = FALSE
    /\ lastCall' = NoCall
    /\ prevCall' = NoCall
    /\ UNCHANGED <<secrets, files, loggedOut, request, loginVars>>

\* No login runs in this specification; its variables stay as they start.
TokenInit == StoreInit /\ LoginIdle /\ proc = NoProc

TokenNext == TokLoad \/ TokSave \/ TokClear \/ TokRestart

TokenSpec == TokenInit /\ [][TokenNext]_vars

----------------------------------------------------------------------------
(* StoreSpec: processes calling all six store operations *)

\* The token and the pairing states the processes store.
StoreTokens == {<<"a">>}
StorePairingStates ==
    { PairingState(getDefaultAppId("prod"), ToBase64([pk |-> k]), ToBase64([sk |-> k]),
                   "r1", buildPairingUrl("r1"), Iso(MaxTime + 2)) : k \in 1..2 }

\* The answers of the secure backend drawn here: success, one error that
\* handleKeychainError classifies as keychain-unavailable, and one it rethrows.
StoreAnswers(fb) ==
    AnswersFor(fb) \cap { SecretOk,
                          [threw |-> TRUE, msg |-> <<"libsecret", "not", "found">>],
                          [threw |-> TRUE, msg |-> <<"permission", "denied">>] }

\* The record of a call, with the value of the flag when the call began.
StoreCall(op, e, res) ==
    [op |-> op, env |-> e, arg |-> Null, ret |-> res.ret, threw |-> res.threw,
     hadSecret |-> FALSE, hadFile |-> FALSE, fallbackBefore |-> useFileFallback]

\* The environment is logged out from the moment a clearToken returns
\* (`bee logout`, logout/index.ts:21) until a saveToken returns.
afterCall(op, e, res) ==
    IF res.threw THEN loggedOut
    ELSE IF op = "clearToken" THEN [loggedOut EXCEPT ![e] = TRUE]
    ELSE IF op = "saveToken" THEN [loggedOut EXCEPT ![e] = FALSE]
    ELSE loggedOut

StoreApply(op, e, res) ==
    /\ SetStore(res)
    /\ lastCall' = StoreCall(op, e, res)
    /\ loggedOut' = afterCall(op, e, res)
    /\ UNCHANGED <<prevCall, request, loginVars>>

StLoadToken ==
    \E e \in Envs, r \in StoreAnswers(useFileFallback) :
        StoreApply("loadToken", e, loadToken(secrets, files, useFileFallback, e, r))

StSaveToken ==
    \E e \in Envs, t \in StoreTokens, r \in StoreAnswers(useFileFallback) :
        StoreApply("saveToken", e, saveToken(secrets, files, useFileFallback, e, t, r))

\* handleLogout: clearToken(context.env)
StClearToken ==
    \E e \in Envs, r \in StoreAnswers(useFileFallback) :
        StoreApply("clearToken", e, clearToken(secrets, files, useFileFallback, e, r))

StLoadPairingState ==
    \E e \in Envs, r \in StoreAnswers(useFileFallback) :
        StoreApply("loadPairingState", e,
                   loadPairingState(secrets, files, useFileFallback, e, r))

StSavePairingState ==
    \E e \in Envs, state \in StorePairingStates, r \in StoreAnswers(useFileFallback) :
        StoreApply("savePairingState", e,
                   savePairingState(secrets, files, useFileFallback, e, state, r))

StClearPairingState ==
    \E e \in Envs, r \in StoreAnswers(useFileFallback) :
        StoreApply("clearPairingState", e,
                   clearPairingState(secrets, files, useFileFallback, e, r))

\* The process ends and the next one starts with a fresh flag.
StRestart ==
    /\ lastCall.op # "none"
    /\ useFileFallback' = FALSE
    /\ lastCall' = NoCall
    /\ UNCHANGED <<secrets, files, prevCall, loggedOut, request, loginVars>>

StoreNext ==
    \/ StLoadToken \/ StSaveToken \/ StClearToken
    \/ StLoadPairingState \/ StSavePairingState \/ StClearPairingState
    \/ StRestart

StoreSpec == TokenInit /\ [][StoreNext]_vars

----------------------------------------------------------------------------
(* Claims about the token store *)

SameEnvPair(first, second) ==
    /\ prevCall.op = first
    /\ lastCall.op = second
    /\ prevCall.env = lastCall.env
    /\ ~prevCall.threw
    /\ ~lastCall.threw

\* C9: saveToken(env, t) followed by loadToken(env) in the same process returns
\* t, whichever backend is active and also when the secure backend is classified
\* as unavailable during or between the two calls.  Stated here for the tokens
\* the login command stores (trimmed, not empty), which the claim includes.
C9_SaveThenLoadReturnsToken ==
    (SameEnvPair("saveToken", "loadToken")
        /\ prevCall.arg = Trim(prevCall.arg) /\ prevCall.arg # <<>>)
    => lastCall.ret = prevCall.arg

\* C10: after clearToken(env) has returned, loadToken(env) in the same process
\* returns null, whatever the secure store and the file held before.
C10_ClearThenLoadReturnsNull ==
    SameEnvPair("clearToken", "loadToken") => lastCall.ret = Null

C10_Witness ==
    /\ SameEnvPair("clearToken", "loadToken")
    /\ prevCall.hadSecret
    /\ prevCall.hadFile
    /\ lastCall.ret = Null

----------------------------------------------------------------------------
(* Claims about the login flows *)

\* The record stored for the process's environment, in either backend.
StoredSecret == secrets[pairingStateKey(proc.env)]
StoredFile == files[getPairingFilePath(proc.env)]
NothingStored == StoredSecret = Null /\ StoredFile = Null

\* loginWithAppPairingAgentMode has thrown, after it found or persisted a state.
AgentErrorWithState ==
    /\ proc.agent
    /\ obs.ended = "threw"
    /\ proc.hasExisting \/ obs.saves > 0

\* C1: in agent mode, when the login ends with an error after a PairingState
\* was found or persisted, no PairingState is stored for the environment, on
\* the resumed path and on the fresh path alike.
C1_NoStateLeftAfterError == AgentErrorWithState => NothingStored

\* What the resumed login would obtain from the last `completed` answer with
\* the stored secret key.
StoredKeyDecryption ==
    decryptAppPairingToken(obs.lastCt, FromBase64(proc.existingState.secretKey))

\* C2: in agent mode, a loaded state whose expiresAt is after now is resumed: no
\* key pair is generated, savePairingState is never called, every pairing
\* request carries the stored appId and public key, and a token returned is the
\* decryption with the stored secret key.
C2_ResumeUsesStoredState ==
    (proc.agent /\ proc.hasExisting /\ obs.loadFuture) =>
        /\ obs.resumed
        /\ obs.keysGen = 0
        /\ obs.saves = 0
        /\ obs.nReq > 0 =>
              obs.lastReq = [appId |-> proc.existingState.appId,
                             publicKey |-> proc.existingState.publicKey]
        /\ obs.ended = "returned" =>
              /\ ~StoredKeyDecryption.threw
              /\ obs.result = StoredKeyDecryption.token

C2_Witness ==
    /\ proc.agent /\ proc.hasExisting /\ obs.loadFuture
    /\ obs.nReq >= 2
    /\ obs.ended = "returned"
    /\ obs.result = <<" ", "a">>

PolledState ==
    PairingState(proc.appId, proc.publicKey, ToBase64(proc.secretKey),
                 proc.requestId, buildPairingUrl(proc.requestId), proc.expiresAt)

\* What a process started now loads, when its secure backend answers as it did
\* for the process that saved.
NextLoad ==
    loadPairingState(secrets, files, FALSE, proc.env,
                     IF obs.savedTo = "secure" THEN SecretOk
                     ELSE [threw |-> TRUE, msg |-> <<"libsecret", "not", "found">>])

FreshPolling == pc \in {"poll", "sleep"} /\ proc.agent /\ ~obs.resumed

PollDecryption == decryptAppPairingToken(obs.lastCt, proc.secretKey)

PollGotCompleted == obs.nPollReq > 0 /\ obs.lastStatus = "completed"

\* C5: when pollForAppToken gets `pending` N times and then `completed`, it has
\* sent exactly N + 1 requests and slept N times when it returns the decryption
\* of that answer's encryptedToken, and it polls and sleeps no more.
C5_ReturnsOnCompletedPoll ==
    PollGotCompleted =>
        /\ obs.nPollReq = obs.nPending + 1
        /\ obs.nSleep = obs.nPending
        /\ pc \notin {"poll", "sleep"}
        /\ obs.pollResult = IF PollDecryption.threw THEN "threw" ELSE "token"
        /\ obs.pollResult = "token" => obs.pollToken = PollDecryption.token

C5_Witness ==
    /\ PollGotCompleted
    /\ obs.nPending = 2
    /\ obs.pollResult = "token"
    /\ obs.pollToken = <<" ", "a">>

\* C6: an error thrown by requestAppPairing during polling ends
\* pollForAppToken at once: no sleep and no request follows it in the
\* invocation, and a sleep is taken only after a `pending` answer.
C6_RequestErrorsAbortPolling ==
    /\ [](obs.pollThrew => (obs.pollResult = "threw" /\ pc \notin {"poll", "sleep"}))
    /\ [][ /\ obs.pollThrew => (obs'.nReq <= obs.nReq /\ obs'.nSleep <= obs.nSleep)
           /\ obs'.nSleep > obs.nSleep => (obs.lastStatus = "pending" /\ pc' = "poll")
         ]_vars

C6_Witness ==
    /\ obs.pollThrew
    /\ obs.nPending >= 1
    /\ obs.pollMsg = "Pairing endpoint not found."
    /\ pc = "failed"

\* C7: after a `completed` or an `expired` answer the invocation sends no
\* further pairing request, also when the `completed` answer's token does not
\* decrypt: then the login fails.
C7_TerminalAnswersEndPolling ==
    /\ []((obs.terminal /\ obs.lastStatus = "completed" /\ PollDecryption.threw)
              => (obs.ended # "returned" /\ pc \in {"failed", "clearAfter"}))
    /\ [][obs.terminal => obs'.nReq <= obs.nReq]_vars

C7_Witness ==
    /\ obs.terminal
    /\ obs.nPollReq >= 2
    /\ obs.lastStatus = "completed"
    /\ PollDecryption.threw
    /\ pc = "failed"

\* pollForAppToken made no request and no sleep, and if it has ended it threw
\* the timed-out error.
PollFailedAtOnce ==
    /\ obs.nPollReq = 0
    /\ obs.nSleep = 0
    /\ pc # "sleep"
    /\ obs.pollResult # "none" =>
          (obs.pollResult = "threw" /\ obs.pollMsg = "Login timed out. Please try again.")

\* C8 as claimed: pollForAppToken called with an expiresAt in the past fails at
\* once with the timed-out error, without a sleep.
C8_PastExpiryFailsAtOnce == (obs.inPoll /\ obs.pollPast) => PollFailedAtOnce

\* C8, amended: so it does when the expiresAt in the past is a date after the
\* Unix epoch (Date.parse gives a value > 0).
C8_PastPositiveExpiryFailsAtOnce ==
    (obs.inPoll /\ obs.pollPast /\ proc.expiresAt.ms > 0) => PollFailedAtOnce

C8_Witness ==
    /\ obs.inPoll /\ obs.pollPast /\ proc.expiresAt.ms > 0
    /\ obs.pollResult = "threw"
    /\ pc = "failed"

----------------------------------------------------------------------------
(* RequestSpec: calls of requestAppPairing *)

\* What the pairing endpoint may answer: any HTTP status, a body that parses
\* as a JSON object or does not, and in the body any mix of the fields the
\* client reads; `ok` FALSE stands for every value of ok other than true.
\* A requestId may be the empty string.
HttpStatuses == {200, 201, 404, 500}
BodyStatuses == {"pending", "completed", "expired", "approved", Undefined}
BodyRequestIds == {"r1", "", Undefined}
BodyExpiries == {Iso(1), Garbage, NoExpiresAt}
BodyCiphertexts == {NotABox, NoCiphertext}
BodyErrors == {Undefined, "Not Found", "rate_limited"}

AnyResponses ==
    {NetworkFailure}
    \cup { HttpResponse(code, json, ok, st, rid, exp, ct, err) :
             code \in HttpStatuses, json \in BOOLEAN, ok \in BOOLEAN,
             st \in BodyStatuses, rid \in BodyRequestIds, exp \in BodyExpiries,
             ct \in BodyCiphertexts, err \in BodyErrors }

\* The public keys a caller passes: a generated one, and the empty string.
PublicKeyInputs == {generateAppPairingKeyPair(1).publicKeyBase64, EmptyPublicKey}

\* requestAppPairing(env, appId, publicKey) is called and answered.
ReqCall ==
    /\ ~request.called
    /\ \E e \in Envs, publicKey \in PublicKeyInputs, resp \in AnyResponses :
          request' = RequestCall(e, getDefaultAppId(e), publicKey, resp)
    /\ UNCHANGED <<storeVars, lastCall, prevCall, loggedOut, loginVars>>

\* The caller has its answer; the next call may begin.
ReqDone ==
    /\ request.called
    /\ request' = NoRequestCall
    /\ UNCHANGED <<storeVars, lastCall, prevCall, loggedOut, loginVars>>

RequestNext == ReqCall \/ ReqDone

RequestSpec == TokenInit /\ [][RequestNext]_vars

----------------------------------------------------------------------------
(* ResumeSpec: agent logins over a damaged stored PairingState *)

\* The state an earlier agent login saved for prod, with key pair 1.
SavedState ==
    PairingState(getDefaultAppId("prod"), generateAppPairingKeyPair(1).publicKeyBase64,
                 ToBase64(generateAppPairingKeyPair(1).secretKey), "r1",
                 buildPairingUrl("r1"), Iso(MaxTime + 2))

\* What the slot may hold after damage: a text that is no JSON, and records
\* that parse but lack the secretKey, carry other bytes as secretKey, or
\* lack or garble expiresAt.
Unparseable == <<"{">>
DamagedStates ==
    { [SavedState EXCEPT !.secretKey = MissingSecretKey],
      [SavedState EXCEPT !.secretKey = MissingSecretKey, !.expiresAt = Garbage],
      [SavedState EXCEPT !.secretKey = ToBase64(NoKeyPair.secretKey)],
      [SavedState EXCEPT !.expiresAt = Garbage],
      [SavedState EXCEPT !.expiresAt = NoExpiresAt] }
DamagedRecords == {Unparseable} \cup {JSONstringify(state) : state \in DamagedStates}

\* The damaged record is in the secure store or in the file of prod; key
\* pair 1 is spent.
ResumeInit ==
    /\ \E text \in DamagedRecords, inSecure \in BOOLEAN :
          /\ secrets = [k \in SecretKeys |->
                          IF inSecure /\ k = pairingStateKey("prod") THEN text ELSE Null]
          /\ files = [path \in FilePaths |->
                          IF ~inSecure /\ path = getPairingFilePath("prod")
                          THEN text ELSE Null]
    /\ useFileFallback = FALSE
    /\ lastCall = NoCall
    /\ prevCall = NoCall
    /\ loggedOut = [e \in Envs |-> FALSE]
    /\ request = NoRequestCall
    /\ now = 1
    /\ keysUsed = 1
    /\ pc = "idle"
    /\ proc = NoProc
    /\ obs = NoObs

\* `bee login --agent`
StartAgent == Start /\ pc' = "agentLoad"

ResumeNext ==
    \/ StartAgent
    \/ AgentLoad
    \/ AgentClearExpired
    \/ Create
    \/ AgentSave
    \/ PollStep
    \/ Sleep
    \/ AgentClearAfter
    \/ ProcessEnds

ResumeSpec == ResumeInit /\ [][ResumeNext]_vars

----------------------------------------------------------------------------
(* RaceSpec: two processes save a PairingState, a third loads it *)

\* Each process is a CLI invocation of its own: its useFileFallback starts
\* false (secureStore.ts:14) and its secure-backend call gets its own answer.
\* A call is one step; pc counts the saves that have completed.
RaceCall(op, e, arg, res) ==
    [op |-> op, env |-> e, arg |-> arg, ret |-> res.ret, threw |-> res.threw,
     hadSecret |-> FALSE, hadFile |-> FALSE]

RaceApply(op, e, arg, res, next) ==
    /\ SetStore(res)
    /\ prevCall' = lastCall
    /\ lastCall' = RaceCall(op, e, arg, res)
    /\ pc' = next
    /\ UNCHANGED <<loggedOut, request, now, keysUsed, proc, obs>>

\* The first process to write: savePairingState(env, state).
RaceFirstSave ==
    /\ pc = "idle"
    /\ \E e \in Envs, state \in StorePairingStates, r \in StoreAnswers(FALSE) :
          LET res == savePairingState(secrets, files, FALSE, e, state, r) IN
          RaceApply("savePairingState", e, state, res,
                    IF res.threw THEN "idle" ELSE "oneSaved")

\* The other process writes after it, for the same environment.
RaceSecondSave ==
    /\ pc = "oneSaved"
    /\ \E state \in StorePairingStates, r \in StoreAnswers(FALSE) :
          LET res == savePairingState(secrets, files, FALSE, lastCall.env, state, r) IN
          /\ ~res.threw
          /\ RaceApply("savePairingState", lastCall.env, state, res, "bothSaved")

\* A following loadPairingState(env), in a process of its own.
RaceLoad ==
    /\ pc = "bothSaved"
    /\ \E r \in StoreAnswers(FALSE) :
          LET res == loadPairingState(secrets, files, FALSE, lastCall.env, r) IN
          RaceApply("loadPairingState", lastCall.env, Null, res, "loaded")

\* The records are removed and the race may be run again.
RaceAgain ==
    /\ pc = "loaded"
    /\ secrets' = [k \in SecretKeys |-> Null]
    /\ files' = [path \in FilePaths |-> Null]
    /\ useFileFallback' = FALSE
    /\ lastCall' = NoCall
    /\ prevCall' = NoCall
    /\ pc' = "idle"
    /\ UNCHANGED <<loggedOut, request, now, keysUsed, proc, obs>>

RaceNext == RaceFirstSave \/ RaceSecondSave \/ RaceLoad \/ RaceAgain

RaceSpec == TokenInit /\ [][RaceNext]_vars

----------------------------------------------------------------------------
(* PollSpec: calls of pollForAppToken *)

\* The expiresAt a caller passes: what the server sent, or what a stored
\* record holds, which may lack the field.
PollExpiries == ServerExpiries \cup {NoExpiresAt}

PollInit ==
    /\ StoreInit
    /\ now = 1
    /\ keysUsed = 1
    /\ pc = "idle"
    /\ \E e \in Envs : proc = [NoProc EXCEPT !.env = e]
    /\ obs = NoObs

\* pollForAppToken(opts) is called, lines 349-361.
PollCall ==
    /\ pc = "idle"
    /\ now <= MaxTime
    /\ UNCHANGED <<storeVars, callVars, now, keysUsed>>
    /\ \E expiresAt \in PollExpiries :
          LET keys == generateAppPairingKeyPair(1) IN
          EnterPoll(proc, NoObs, getDefaultAppId(proc.env),
                    keys.publicKeyBase64, keys.secretKey, expiresAt)

\* The caller has its token or its error; the next call may follow.
PollReturned ==
    /\ pc \in {"verify", "failed"}
    /\ pc' = "idle"
    /\ proc' = [NoProc EXCEPT !.env = proc.env]
    /\ obs' = NoObs
    /\ UNCHANGED <<storeVars, callVars, now, keysUsed>>

PollNext == PollCall \/ PollStep \/ Sleep \/ Tick \/ PollReturned

PollSpec == PollInit /\ [][PollNext]_vars

\* Every requestAppPairing call returns or throws, and the timer of
\* sleep(intervalMs) fires: a turn of the loop that can be taken is taken.
FairPollSpec == PollSpec /\ WF_vars(PollStep) /\ WF_vars(Sleep)

----------------------------------------------------------------------------
(* LoginSpec: `bee login` and `bee auth login`, from their arguments *)

Commands == {"login", "auth login"}

\* An argument is a string, here a sequence of its pieces: an option is one
\* piece, a token value is written like the tokens above.
Option(name) == <<name>>

\* The pieces of the model that begin with "-".
Dashed == {"--token", "--token-stdin", "--agent", "--skip-verify", "--bogus"}

\* arg.startsWith("-")
startsWithDash(arg) == arg # <<>> /\ arg[1] \in Dashed

ArgLists ==
    { <<>>,
      <<Option("--agent")>>,
      <<Option("--skip-verify")>>,
      <<Option("--token"), <<" ">>>>,
      <<Option("--token"), <<" ", "b">>>>,
      <<Option("--skip-verify"), Option("--token"), <<" ", "b">>>>,
      <<Option("--token")>>,
      <<Option("--token-stdin")>>,
      <<Option("--token"), <<" ", "b">>, Option("--token-stdin")>>,
      <<Option("--bogus")>>,
      <<<<"x">>>> }

\* What arrives on stdin for --token-stdin.
StdinInputs == {<<" ">>, <<" ", "b">>}

NoOptions ==
    [threw |-> FALSE, msg |-> "", token |-> Null, tokenStdin |-> FALSE,
     agent |-> FALSE, skipVerify |-> FALSE, positionals |-> 0]

\* The loop of parseLoginArgs from index i on, and the test that follows it.
RECURSIVE parseArgsFrom(_, _, _, _)
parseArgsFrom(command, args, i, options) ==
    IF i > Len(args)
    THEN IF options.positionals > 0
         THEN [options EXCEPT !.threw = TRUE, !.msg = "Unexpected arguments"]
         ELSE options
    ELSE LET arg == args[i] IN
         IF arg = Option("--token")
         THEN IF i + 1 > Len(args)
              THEN [options EXCEPT !.threw = TRUE, !.msg = "--token requires a value"]
              ELSE parseArgsFrom(command, args, i + 2,
                                 [options EXCEPT !.token = args[i + 1]])
         ELSE IF arg = Option("--token-stdin")
         THEN parseArgsFrom(command, args, i + 1, [options EXCEPT !.tokenStdin = TRUE])
         ELSE IF command = "login" /\ arg = Option("--agent")
         THEN parseArgsFrom(command, args, i + 1, [options EXCEPT !.agent = TRUE])
         ELSE IF command = "auth login" /\ arg = Option("--skip-verify")
         THEN parseArgsFrom(command, args, i + 1, [options EXCEPT !.skipVerify = TRUE])
         ELSE IF startsWithDash(arg)
         THEN [options EXCEPT !.threw = TRUE, !.msg = "Unknown option"]
         ELSE parseArgsFrom(command, args, i + 1,
                            [options EXCEPT !.positionals = @ + 1])

\* parseLoginArgs of `bee login` (with --agent) and of `bee auth login`
\* (with --skip-verify)
parseLoginArgs(command, args) == parseArgsFrom(command, args, 1, NoOptions)

\* handleLogin up to the token it was given, lines 49-62 (auth/index.ts
\* 80-93); readTokenFromStdin, lines 151-174.
ArgsStart ==
    /\ pc = "idle"
    /\ now <= MaxTime
    /\ UNCHANGED <<storeVars, callVars, now, keysUsed>>
    /\ \E command \in Commands, args \in ArgLists, isTTY \in BOOLEAN,
          stdin \in StdinInputs :
        LET options == parseLoginArgs(command, args)
            p == [proc EXCEPT !.command = command, !.agent = options.agent,
                              !.skipVerify = options.skipVerify]
        IN  IF options.threw THEN Fail(p, NoObs, options.msg)
            ELSE IF options.tokenStdin /\ options.token # Null
            THEN Fail(p, NoObs, "Use either --token or --token-stdin, not both.")
            ELSE IF options.tokenStdin
            THEN IF isTTY
                 THEN Fail(p, NoObs, "--token-stdin requires input via stdin.")
                 ELSE withToken(p, isTTY, Trim(stdin))
            ELSE withToken(p, isTTY, options.token)

\* The clock is read in whole ticks of TickMs milliseconds.
TickMs == 2000
ticksOf(ms) == ms \div TickMs

\* response.ok: the status is in the range 200-299
responseOk(status) == status >= 200 /\ status <= 299

\* Answers of /v1/auth/device/start: valid says that device_code, user_code
\* and verification_url are strings and expires_in a number; interval 0
\* stands for an interval that is missing or not a positive number.
StartResponses ==
    { [status |-> 500, valid |-> FALSE, expires_in |-> 0, interval |-> 0],
      [status |-> 200, valid |-> FALSE, expires_in |-> 0, interval |-> 0] }
    \cup { [status |-> 200, valid |-> TRUE, expires_in |-> x, interval |-> i]
             : x \in {2, 4}, i \in {0, 2} }

\* startDeviceAuth, auth/index.ts 328-375
startDeviceAuth(resp) ==
    IF ~responseOk(resp.status)
    THEN [threw |-> TRUE, msg |-> "Request failed", expires_in |-> 0, interval |-> 0]
    ELSE IF ~resp.valid
    THEN [threw |-> TRUE, msg |-> "Invalid response from developer API.",
          expires_in |-> 0, interval |-> 0]
    ELSE [threw |-> FALSE, msg |-> "", expires_in |-> resp.expires_in,
          interval |-> IF resp.interval > 0 THEN resp.interval ELSE 5]

\* An answer of /v1/auth/device/token: the status and the fields of its body
\* (Null, Undefined or 0 where a field is missing).
DeviceTokenResponse(status, token, accessToken, error, interval) ==
    [status |-> status, token |-> token, access_token |-> accessToken,
     error |-> error, interval |-> interval]

DeviceTokenResponses ==
    { DeviceTokenResponse(200, <<"a">>, Null, Undefined, 0),
      DeviceTokenResponse(200, Null, <<"a">>, Undefined, 0),
      DeviceTokenResponse(200, Null, Null, Undefined, 0),
      DeviceTokenResponse(202, Null, Null, Undefined, 0),
      DeviceTokenResponse(400, Null, Null, "authorization_pending", 0),
      DeviceTokenResponse(400, Null, Null, "slow_down", 4),
      DeviceTokenResponse(400, Null, Null, "slow_down", 0),
      DeviceTokenResponse(400, Null, Null, "expired_token", 0),
      DeviceTokenResponse(400, Null, Null, "access_denied", 0),
      DeviceTokenResponse(500, Null, Null, Undefined, 0) }

DeviceOutcome(status, token, retryInMs, msg) ==
    [status |-> status, token |-> token, retryInMs |-> retryInMs, msg |-> msg]

\* auth/index.ts 414-419: data.token, else data.access_token, else null
tokenIn(resp) ==
    IF resp.token # Null THEN resp.token
    ELSE IF resp.access_token # Null THEN resp.access_token
    ELSE Null

\* fetchDeviceToken, auth/index.ts 400-463; retryInMs 0 stands for undefined
fetchDeviceToken(resp) ==
    IF responseOk(resp.status)
    THEN IF tokenIn(resp) \in {Null, <<>>}
         THEN DeviceOutcome("threw", <<>>, 0, "Invalid response from developer API.")
         ELSE DeviceOutcome("success", tokenIn(resp), 0, "")
    ELSE IF resp.status = 202
    THEN DeviceOutcome("pending", <<>>, 0, "")
    ELSE IF resp.error = "authorization_pending"
    THEN DeviceOutcome("pending", <<>>, 0, "")
    ELSE IF resp.error = "slow_down"
    THEN DeviceOutcome("pending", <<>>,
                       IF resp.interval > 0 THEN resp.interval * 1000 ELSE 0, "")
    ELSE IF resp.error = "expired_token"
    THEN DeviceOutcome("threw", <<>>, 0, "Login expired. Please run the command again.")
    ELSE IF resp.error = "access_denied"
    THEN DeviceOutcome("threw", <<>>, 0, "Login was canceled.")
    ELSE DeviceOutcome("threw", <<>>, 0, "Request failed")

\* loginWithDeviceFlow, auth/index.ts 265-281, up to the first turn of
\* pollForDeviceToken's loop: the device authorization is started and
\* presented, and the deadline and the interval are set (lines 381-382).
DeviceStart ==
    /\ pc = "deviceStart"
    /\ UNCHANGED <<storeVars, callVars, now, keysUsed>>
    /\ \E resp \in StartResponses :
        LET deviceAuth == startDeviceAuth(resp) IN
        IF deviceAuth.threw THEN Fail(proc, obs, deviceAuth.msg)
        ELSE Goto("devicePoll",
                  [proc EXCEPT !.deadline = now + ticksOf(deviceAuth.expires_in * 1000),
                               !.deviceIntervalMs = deviceAuth.interval * 1000],
                  [obs EXCEPT !.presented = TRUE,
                              !.printed = @ \cup {Shown("verificationUrl", 0),
                                                  Shown("user_code", 0)}])

\* One turn of pollForDeviceToken's loop, auth/index.ts 384-397.
DevicePoll ==
    /\ pc = "devicePoll"
    /\ UNCHANGED <<storeVars, callVars, now, keysUsed>>
    /\ IF ~(now < proc.deadline)
       THEN Fail(proc, obs, "Login timed out. Please try again.")
       ELSE \E resp \in DeviceTokenResponses :
            LET outcome == fetchDeviceToken(resp)
                o == [obs EXCEPT !.deviceHttp = resp.status,
                                 !.deviceToken = tokenIn(resp) \notin {Null, <<>>}]
            IN  IF outcome.status = "threw" THEN Fail(proc, o, outcome.msg)
                ELSE IF outcome.status = "success" THEN Return(proc, o, outcome.token)
                ELSE Goto("deviceSleep",
                          [proc EXCEPT !.deviceIntervalMs =
                                           IF outcome.retryInMs > 0
                                           THEN outcome.retryInMs ELSE @],
                          o)

\* await sleep(intervalMs), auth/index.ts 394
DeviceSleep ==
    /\ pc = "deviceSleep"
    /\ now' = now + ticksOf(proc.deviceIntervalMs)
    /\ Goto("devicePoll", proc, obs)
    /\ UNCHANGED <<storeVars, callVars, keysUsed>>

LoginNext ==
    \/ ArgsStart
    \/ AgentLoad
    \/ AgentClearExpired
    \/ Create
    \/ AgentSave
    \/ Present
    \/ PollStep
    \/ Sleep
    \/ AgentClearAfter
    \/ DeviceStart
    \/ DevicePoll
    \/ DeviceSleep
    \/ Verify
    \/ StoreToken
    \/ ProcessEnds
    \/ Tick

LoginSpec == Init /\ [][LoginNext]_vars

----------------------------------------------------------------------------
(* Claims about the store across processes (StoreSpec) *)

\* C11: once a clearToken for an environment has returned (logout), every
\* loadToken for that environment that returns gives null, in that process
\* and in later ones, whatever backend each uses, until a saveToken for the
\* environment returns.
C11_LoggedOutLoadsNull ==
    (/\ lastCall.op = "loadToken"
     /\ ~lastCall.threw
     /\ loggedOut[lastCall.env])
    => lastCall.ret = Null

\* What a call that uses the file backend only does: c is the record of the
\* call, fil the files before it and fil2 the files after it.
FileBackendOnly(c, fil, fil2) ==
    CASE c.op = "loadToken" ->
            fil2 = fil /\ c.ret = loadTokenFromFile(fil, c.env)
      [] c.op = "saveToken" ->
            \E t \in StoreTokens : fil2 = saveTokenToFile(fil, c.env, t)
      [] c.op = "clearToken" ->
            fil2 = clearTokenFromFile(fil, c.env)
      [] c.op = "loadPairingState" ->
            fil2 = fil /\ c.ret = loadPairingStateFromFile(fil, c.env)
      [] c.op = "savePairingState" ->
            \E state \in StorePairingStates :
                fil2 = savePairingStateToFile(fil, c.env, state)
      [] c.op = "clearPairingState" ->
            fil2 = clearPairingStateFromFile(fil, c.env)
      [] OTHER -> FALSE

\* C12: once useFileFallback is true, every later store call of the process
\* (credential or pairing state, any environment) leaves it true, leaves the
\* secure store as it is, does not fail, and reads and writes the file
\* backend only.
C12_FallbackIsSticky ==
    [][ (useFileFallback /\ lastCall'.op # "none")
        => /\ useFileFallback'
           /\ secrets' = secrets
           /\ ~lastCall'.threw
           /\ FileBackendOnly(lastCall', files, files') ]_vars

\* A pairing state was saved by a call that began with the fallback active: it
\* is in the file, and the secure store holds none for the environment.
C12_Witness ==
    /\ lastCall.op = "savePairingState"
    /\ lastCall.fallbackBefore
    /\ useFileFallback
    /\ files[getPairingFilePath(lastCall.env)] # Null
    /\ secrets[pairingStateKey(lastCall.env)] = Null

\* C13: when a call of clearToken or clearPairingState ends, by returning or
\* by throwing, the file token-<env> (pairing-<env>.json) does not exist.
C13_ClearRemovesFile ==
    /\ lastCall.op = "clearToken" => files[getTokenFilePath(lastCall.env)] = Null
    /\ lastCall.op = "clearPairingState" => files[getPairingFilePath(lastCall.env)] = Null

\* C14: a store call for environment A changes neither the token stored for
\* another environment B, in the secure store or in the file, nor the value
\* that a loadToken(B) following it in the same process returns (for each
\* answer the secure backend may give to that load).
C14_OtherEnvironmentUntouched ==
    [][ lastCall'.op # "none"
        => \A b \in Envs \ {lastCall'.env} :
              /\ secrets'[tokenKey(b)] = secrets[tokenKey(b)]
              /\ files'[getTokenFilePath(b)] = files[getTokenFilePath(b)]
              /\ \A r \in SecretResults :
                    loadToken(secrets', files', useFileFallback', b, r).ret
                        = loadToken(secrets, files, useFileFallback, b, r).ret ]_vars

\* The PairingState records stored for environment e: the secure-store entry
\* pairing:<env> and the file pairing-<env>.json.
PairingRecords(e) ==
    {k \in {pairingStateKey(e)} : secrets[k] # Null}
        \cup {path \in {getPairingFilePath(e)} : files[path] # Null}

\* C15: for every environment at most one PairingState record is stored,
\* the secure-store entry and the file counted together.
C15_AtMostOnePairingState ==
    \A e \in Envs : Cardinality(PairingRecords(e)) <= 1

----------------------------------------------------------------------------
(* Claims about the login command, continued (Spec) *)

\* C16: in agent mode, when loginWithAppPairingAgentMode has returned a
\* token, no PairingState is stored for the environment, in the secure store
\* or in the file.
C16_NoStateLeftAfterSuccess ==
    (proc.agent /\ obs.ended = "returned") => NothingStored

\* The token in the backend the process uses, and what a loadToken that
\* follows in this process returns when its secure-store read, if it makes
\* one, succeeds.
ActiveToken ==
    IF useFileFallback THEN files[getTokenFilePath(proc.env)]
    ELSE secrets[tokenKey(proc.env)]
FollowingLoad == loadToken(secrets, files, useFileFallback, proc.env, SecretOk).ret

\* C17 as stated: whenever a pairing was completed and its token decrypted
\* (loginWithAppPairing returned it), the login invocation ends with that
\* token, trimmed, stored, and a following loadToken returns it.
C17_PairedTokenIsStored ==
    (obs.ended = "returned" /\ pc \in {"done", "failed"})
    => FollowingLoad = Trim(obs.result)

\* C17 amended: when the pairing returned a token and the invocation ends
\* normally (fetchClientMe accepted the token and saveToken did not throw),
\* the trimmed token is in the backend the process uses; a following
\* loadToken that reads that backend returns it.
C17_VerifiedPairedTokenIsStored ==
    (obs.ended = "returned" /\ pc = "done")
    => /\ ActiveToken = Trim(obs.result)
       /\ FollowingLoad = Trim(obs.result)

\* An agent-mode pairing delivered " a" and the login ended with "a" stored.
C17_Witness ==
    /\ pc = "done"
    /\ proc.agent
    /\ obs.ended = "returned"
    /\ obs.pollResult = "token"
    /\ obs.result = <<" ", "a">>
    /\ FollowingLoad = <<"a">>

----------------------------------------------------------------------------
(* Claims about requestAppPairing (RequestSpec) *)

\* The responses for which C18 says a value is returned.
WellFormed(resp) ==
    /\ ~resp.network
    /\ resp.httpStatus \in 200..299
    /\ resp.json
    /\ resp.ok
    /\ \/ /\ resp.status = "pending"
          /\ resp.requestId # Undefined
          /\ resp.expiresAt.kind # "undefined"
       \/ /\ resp.status = "completed"
          /\ resp.requestId # Undefined
          /\ resp.encryptedToken.kind # "undefined"
       \/ /\ resp.status = "expired"
          /\ resp.requestId # Undefined

\* The value returned carries the fields of its status as the response gave
\* them, and no others.
FieldsOf(out, resp) ==
    /\ out.status = resp.status
    /\ out.requestId = resp.requestId
    /\ out.expiresAt = IF out.status = "pending" THEN resp.expiresAt ELSE NoExpiresAt
    /\ out.encryptedToken =
          IF out.status = "completed" THEN resp.encryptedToken ELSE NoCiphertext

\* C18: a call of requestAppPairing sends exactly one HTTP request; it
\* returns a value exactly when the response is 2xx with ok === true and
\* status pending (string requestId and expiresAt), completed (string
\* requestId and result.encryptedToken) or expired (string requestId), and
\* then the value carries those fields; for every other response it throws
\* and gives back no field at all.
C18_ReturnsOnlyWellFormed ==
    request.called
    => /\ request.fetches = 1
       /\ IF WellFormed(request.response)
          THEN FieldsOf(request.outcome, request.response)
          ELSE /\ request.outcome.status = "error"
               /\ request.outcome = Thrown(request.outcome.message)

\* A call answered 2xx, ok, completed with a ciphertext returned it; nothing
\* else of the response (here an expiresAt the body also carried) came along.
C18_Witness ==
    /\ request.called
    /\ request.response.httpStatus = 201
    /\ request.response.expiresAt = Garbage
    /\ request.outcome.status = "completed"
    /\ request.outcome.requestId = "r1"
    /\ request.outcome.encryptedToken = NotABox
    /\ request.outcome.expiresAt = NoExpiresAt

\* C19: every value requestAppPairing returns has status pending, completed
\* or expired and a requestId that is not empty.
C19_ReturnedRequestIdNonEmpty ==
    (request.called /\ request.outcome.status # "error")
    => /\ request.outcome.status \in {"pending", "completed", "expired"}
       /\ request.outcome.requestId \notin {"", Undefined}

\* C20: a call of requestAppPairing with an empty publicKey fails: it
\* returns no value.
C20_EmptyPublicKeyRejected ==
    (request.called /\ request.body.publicKey = EmptyPublicKey)
    => request.outcome.status = "error"

\* The decryption of the first answer's encryptedToken with the key pair
\* generated for the attempt.
InitialDecryption == decryptAppPairingToken(obs.lastCt, proc.secretKey)

\* C21: in the interactive flow a first answer `completed` ends
\* loginWithAppPairing at once, with the decrypted token (or the decryption
\* error), and a first answer `expired` ends it at once with the "Pairing
\* request expired. Please try again." error: nothing is presented, no poll is
\* sent.  Presenting and polling happen only after a first answer `pending`.
C21_InteractiveFirstAnswer ==
    ~proc.agent
    => /\ obs.initial \in {"completed", "expired"}
            => /\ ~obs.presented /\ ~obs.inPoll
               /\ obs.nReq = 1 /\ obs.nPollReq = 0 /\ obs.nSleep = 0
       /\ obs.initial = "completed"
            => IF InitialDecryption.threw
               THEN obs.ended = "threw"
               ELSE obs.ended = "returned" /\ obs.result = InitialDecryption.token
       /\ obs.initial = "expired"
            => /\ obs.ended = "threw" /\ pc = "failed"
               /\ proc.errMsg = "Pairing request expired. Please try again."
       /\ (obs.presented \/ obs.inPoll) => obs.initial = "pending"

\* An interactive login whose first answer was `completed` has returned the
\* decrypted token without presenting or polling.
C21_Witness ==
    /\ ~proc.agent
    /\ obs.initial = "completed"
    /\ obs.ended = "returned"
    /\ obs.result = <<" ", "a">>
    /\ ~obs.presented
    /\ obs.nPollReq = 0

----------------------------------------------------------------------------
(* Claims about the store, continued (StoreSpec) *)

\* Neither backend holds a credential / a PairingState for environment e.
NoTokenFor(e) == secrets[tokenKey(e)] = Null /\ files[getTokenFilePath(e)] = Null
NoPairingStateFor(e) ==
    secrets[pairingStateKey(e)] = Null /\ files[getPairingFilePath(e)] = Null

\* C22 as stated: a loadToken or loadPairingState for an environment for
\* which neither the secure store nor the file holds an entry returns null
\* and does not throw.
C22_MissingLoadsNull ==
    /\ (lastCall.op = "loadToken" /\ NoTokenFor(lastCall.env))
            => (lastCall.ret = Null /\ ~lastCall.threw)
    /\ (lastCall.op = "loadPairingState" /\ NoPairingStateFor(lastCall.env))
            => (lastCall.ret = Null /\ ~lastCall.threw)

\* The secure backend answers the read, or fails in a way handleKeychainError
\* classifies as keychain-unavailable.
ReadAnswered(r) == ~r.threw \/ isKeychainUnavailable(r.msg)

\* C22 amended: with no entry in either backend, loadToken and
\* loadPairingState return null and do not throw, with the fallback active
\* or not, whenever the secure-store read (if one is made) succeeds or fails
\* as keychain-unavailable.
C22_MissingLoadsNullUnlessRethrown ==
    /\ (lastCall.op \in {"loadToken", "loadPairingState"} /\ lastCall.threw)
            => ~lastCall.fallbackBefore
    /\ \A e \in Envs, r \in SecretResults :
          (useFileFallback \/ ReadAnswered(r))
          => /\ NoTokenFor(e) =>
                    LET res == loadToken(secrets, files, useFileFallback, e, r)
                    IN  res.ret = Null /\ ~res.threw
             /\ NoPairingStateFor(e) =>
                    LET res == loadPairingState(secrets, files, useFileFallback, e, r)
                    IN  res.ret = Null /\ ~res.threw

\* A loadPairingState found nothing and returned null after the secure store
\* had failed as keychain-unavailable during that call.
C22_Witness ==
    /\ lastCall.op = "loadPairingState"
    /\ NoPairingStateFor(lastCall.env)
    /\ ~lastCall.fallbackBefore /\ useFileFallback
    /\ lastCall.ret = Null
    /\ ~lastCall.threw

----------------------------------------------------------------------------
(* Claims about the login command, continued (Spec) *)

----------------------------------------------------------------------------
(* Claims about resuming (ResumeSpec) *)

\* The state loaded is not one a login saved: its secretKey is missing or is
\* not the secret key of its public key, or its expiresAt is no date.
Corrupted(state) ==
    \/ bufferFromThrows(state.secretKey)
    \/ FromBase64(state.secretKey).sk # FromBase64(state.publicKey).pk
    \/ state.expiresAt.kind # "iso"

\* C24: an agent login that loads a corrupted PairingState does not resume
\* it and does not fail on it: the record never makes the invocation throw
\* before a fresh request with a new key pair was created.
C24_CorruptedStateForcesFresh ==
    (proc.agent /\ proc.hasExisting /\ Corrupted(proc.existingState))
    => /\ ~obs.resumed
       /\ (pc = "failed" /\ obs.keysGen = 0) => proc.errMsg = "keychain error"

----------------------------------------------------------------------------
(* Claims about racing processes (RaceSpec) *)

\* C25: after the savePairingState calls of two processes have both
\* completed, a following loadPairingState that returns gives the state of
\* the call that completed last, whole.
C25_LastWriterWins ==
    (pc = "loaded" /\ ~lastCall.threw)
    => lastCall.ret = <<"state", prevCall.arg>>

----------------------------------------------------------------------------
(* Claims about pollForAppToken (PollSpec, FairPollSpec) *)

\* An expiresAt the code takes for missing or invalid: Date.parse gives NaN
\* (no date, or the field is absent) or a time not after the epoch.
InvalidExpiry(expiresAt) ==
    DateParse(expiresAt).nan \/ DateParse(expiresAt).v <= 0

TimedOut(o) ==
    o.pollResult = "threw" /\ o.pollMsg = "Login timed out. Please try again."

\* the call: the deadline is the parsed expiresAt, or the time of the call
\* plus the fallback when expiresAt is missing or invalid
DeadlineOfCall ==
    (pc = "idle" /\ pc' = "poll")
    => proc'.deadline = IF InvalidExpiry(proc'.expiresAt)
                        THEN now + FallbackTicks
                        ELSE DateParse(proc'.expiresAt).v

\* a request is started only while now < deadline
RequestOnlyBeforeDeadline ==
    (obs'.nPollReq > obs.nPollReq) => (pc = "poll" /\ now < proc.deadline)

\* at the top of the loop with the deadline passed: no request, and the
\* call fails with the timeout error
DeadlinePassedTimesOut ==
    (pc = "poll" /\ pc' # "poll" /\ ~(now < proc.deadline))
    => /\ TimedOut(obs')
       /\ obs'.nPollReq = obs.nPollReq
       /\ pc' = "failed"

C27_PollTerminates == obs.inPoll ~> (obs.inPoll /\ obs.pollResult # "none")

\* Every poll up to the fallback deadline was answered `pending`, and the
\* call has ended.
C27_Witness ==
    /\ obs.inPoll
    /\ obs.pollResult # "none"
    /\ InvalidExpiry(proc.expiresAt)
    /\ obs.nPollReq = FallbackTicks
    /\ obs.nPending = obs.nPollReq
    /\ obs.nSleep = obs.nPollReq

----------------------------------------------------------------------------
(* Claims about unclassified errors of the secure backend (StoreSpec) *)

\* The errors whose message names none of libsecret, keychain, secret
\* service, dbus.
UnclassifiedErrors ==
    {r \in SecretResults : r.threw /\ ~isKeychainUnavailable(r.msg)}

\* The call threw, and the flag and every file are as they were.
RethrownUntouched(res) ==
    /\ res.threw
    /\ res.fb = useFileFallback
    /\ res.fil = files

----------------------------------------------------------------------------
(* Claims about the login commands (LoginSpec) *)

\* What is stored as the token of each environment, in either backend.
TokenSlots ==
    [e \in Envs |-> <<secrets[tokenKey(e)], files[getTokenFilePath(e)]>>]

\* The token about to be saved is the one fetchClientMe (fetchDeveloperMe)
\* accepted, or the command is `bee auth login --skip-verify`.
VerifiedFirst ==
    \/ obs.verified = proc.token
    \/ proc.command = "auth login" /\ proc.skipVerify

\* The step is the command's call of saveToken.
SaveTokenStep == pc = "saveToken" /\ pc' \in {"done", "failed"}

\* C29: the login command calls saveToken only for a token that was verified
\* before (`bee auth login`: unless --skip-verify was given), and no other
\* step of the command, a failure of argument parsing, pairing or
\* verification included, changes the token stored for any environment.
C29_StoredOnlyAfterVerification ==
    [][/\ SaveTokenStep => VerifiedFirst
       /\ (TokenSlots' # TokenSlots) => (SaveTokenStep /\ VerifiedFirst)]_vars

\* An earlier invocation stored a token; this one, `bee auth login` through
\* the device flow, failed at verification of the token it obtained, and the
\* stored token is still there.
C29_Witness ==
    /\ pc = "failed"
    /\ proc.command = "auth login"
    /\ proc.errMsg = "Request failed"
    /\ obs.ended = "returned"
    /\ obs.verified = Null
    /\ secrets[tokenKey(proc.env)] # Null

\* C30: after an HTTP 202 answer without a token the device-code login is
\* not failed by that answer: it sleeps and polls again, until the deadline.
C30_Accepted202KeepsPolling ==
    (obs.deviceHttp = 202 /\ ~obs.deviceToken)
    => \/ pc \in {"deviceSleep", "devicePoll"}
       \/ pc = "failed" /\ proc.errMsg = "Login timed out. Please try again."

====
